---- MODULE Spec2Model ----
(***************************************************************************)
(* Model of the two QGIS processing algorithms of dataforsyningen_download *)
(*                                                                         *)
(*   DownloadBlockFilesFromFTPS.processAlgorithm  (download_blocks.py)     *)
(*   Load10KmIndexFile.processAlgorithm           (load_index_file.py)     *)
(*                                                                         *)
(* The algorithms are sequential.  The outside world (the FTPS server, the *)
(* local file system, the zip archives, the OGR data source) decides, at   *)
(* each call the code makes, whether the call returns or raises; the model *)
(* draws that outcome nondeterministically.  Every call the code makes to  *)
(* the outside world is appended to `trace` with its outcome, and every    *)
(* message it pushes to the feedback object is appended to `feedback`.     *)
(***************************************************************************)
EXTENDS Integers, Sequences, FiniteSets, TLC

\* Longest feature selection explored.
MaxSel == 3
\* Most invocations of the index loader explored.
MaxRuns == 3

(***************************************************************************)
(* Inputs.                                                                 *)
(***************************************************************************)
\* Values feature[attribute_field] takes: "" stands for every falsy value
\* (empty string, NULL); the two others are block identifiers.
GridIds == {"", "605_64", "606_65"}

\* Values of the two credential parameters: empty or not.
Credentials == {"", "secret"}

\* The folder parameter; folder_ok tells whether os.path.isdir holds for it.
OutputFolder == "/out"

\* URLs given to the index loader: none, one OGR can open, one it cannot.
Urls == {"", "https://host/DK_10K_grid.geojson", "https://host/missing.geojson"}

SeqUpTo(S, n) == UNION {[1..k -> S] : k \in 0..n}

VARIABLES
    \* ---- Block Downloader: the invocation's inputs
    layer_ok,            \* iface.activeLayer() is a vector layer
    username, password,  \* FTP_USERNAME, FTP_PASSWORD
    folder_ok,           \* os.path.isdir(output_folder)
    selected_features,   \* grid id of each selected feature, selection order
    block_type_index,    \* BLOCK_TYPE, 0-based as in the source
    unpack_zip,          \* UNPACK_ZIP
    \* ---- Block Downloader: the run
    pc,                  \* "start", "connect", "loop", "returned", "raised"
    ftps,                \* "none", "connected", "broken", "closed"
    i,                   \* position in selected_features of the next feature
    downloaded_files,    \* the counter of line 190
    trace,               \* calls to the outside world, in order
    feedback,            \* pushInfo / reportError messages, in order
    files,               \* the output folder: file name -> content state
    unpacked,            \* zip files whose entries are all in the folder
    raised,              \* message of the exception that ended the run
    result,              \* DOWNLOADED_FILES of the returned dict, or -1
    \* ---- Index Loader
    idx_pc,              \* "idle", "called", "created", "styled", "added",
                         \* "returned", "raised"
    url,                 \* the URL parameter of the current invocation
    layer,               \* the QgsVectorLayer being built
    project,             \* layers of QgsProject.instance(), in order added
    idx_raised,          \* message of the exception that ended the invocation
    idx_result,          \* the returned 'Result' string, or ""
    runs                 \* invocations started so far

dlvars == <<layer_ok, username, password, folder_ok, selected_features,
            block_type_index, unpack_zip, pc, ftps, i, downloaded_files,
            trace, feedback, files, unpacked, raised, result>>
idxvars == <<idx_pc, url, layer, project, idx_raised, idx_result, runs>>
vars == <<dlvars, idxvars>>

(***************************************************************************)
(* Block Downloader: pure helpers.                                         *)
(***************************************************************************)
BLOCK_TYPES == <<"DTM", "DSM", "Pointclouds">>

\* block_type = self.BLOCK_TYPES[block_type_index]
BlockType(idx) == BLOCK_TYPES[idx + 1]

\* Every category fetched from the terrain model's directory.
FtpPath_SharedDirectory(block_type) == "/dhm_danmarks_hoejdemodel/DTM/"

\* The if/elif chain choosing ftp_path.
FtpPath(block_type) ==
    CASE block_type = "DTM" -> "/dhm_danmarks_hoejdemodel/DTM/"
      [] block_type = "DSM" -> "/dhm_danmarks_hoejdemodel/DSM/"
      [] block_type = "Pointclouds" -> "/dhm_danmarks_hoejdemodel/PUNKTSKY/"

\* The if/elif chain choosing filename_template, as the text before and
\* after the {grid_id} field.
FilenameTemplate(block_type) ==
    CASE block_type = "DTM" -> <<"DTM_", "_TIF_UTM32-ETRS89.zip">>
      [] block_type = "DSM" -> <<"DSM_", "_TIF_UTM32-ETRS89.zip">>
      [] block_type = "Pointclouds" -> <<"PUNKTSKY_", "_TIF_UTM32-ETRS89.zip">>

\* filename_template.format(grid_id=grid_id)
Format(template, grid_id) == template[1] \o grid_id \o template[2]

Filename(block_type, grid_id) == Format(FilenameTemplate(block_type), grid_id)

\* os.path.join(output_folder, filename)
PathJoin(folder, filename) == folder \o "/" \o filename

\* ftp_filepath = ftp_path + filename
FtpFilepath(block_type, grid_id) ==
    FtpPath(block_type) \o Filename(block_type, grid_id)

RetrCommand(ftp_filepath) == "RETR " \o ftp_filepath

\* `not grid_id`
IsEmptyId_Never(grid_id) == FALSE

IsEmptyId(grid_id) == grid_id = ""

UpperAlpha == "ABCDEFGHIJKLMNOPQRSTUVWXYZ"
LowerAlpha == "abcdefghijklmnopqrstuvwxyz"

LowerChar(c) ==
    IF \E j \in 1..Len(UpperAlpha) : SubSeq(UpperAlpha, j, j) = c
    THEN LET j == CHOOSE j \in 1..Len(UpperAlpha) : SubSeq(UpperAlpha, j, j) = c
         IN  SubSeq(LowerAlpha, j, j)
    ELSE c

\* str.lower()
RECURSIVE Lower(_)
Lower(s) ==
    IF Len(s) = 0 THEN s
    ELSE Lower(SubSeq(s, 1, Len(s) - 1)) \o LowerChar(SubSeq(s, Len(s), Len(s)))

\* str.endswith(suffix)
EndsWith(s, suffix) ==
    /\ Len(s) >= Len(suffix)
    /\ SubSeq(s, Len(s) - Len(suffix) + 1, Len(s)) = suffix

\* `unpack_zip and filename.lower().endswith('.zip')`
ShouldUnpack_IgnoresFlag(flag, filename) == EndsWith(Lower(filename), ".zip")

ShouldUnpack(flag, filename) == flag /\ EndsWith(Lower(filename), ".zip")

\* `downloaded_files += 1`
Increment_Forgotten(n) == n

Increment(n) == n + 1

\* One call to the outside world and how it ended.
Ev(op, arg, ok, fid) == [op |-> op, arg |-> arg, ok |-> ok, fid |-> fid]

Info(msg, arg, fid) == [level |-> "info", msg |-> msg, arg |-> arg, fid |-> fid]
Err(msg, arg, fid) == [level |-> "error", msg |-> msg, arg |-> arg, fid |-> fid]

NoFiles == [x \in {} |-> "incomplete"]

\* open(local_filepath, "wb"): the file is created, or truncated when it
\* exists; its content is incomplete until the transfer ends.
OpenWb_KeepsContent(fs, name) ==
    [x \in DOMAIN fs \cup {name} |->
        IF x \in DOMAIN fs THEN fs[x] ELSE "incomplete"]

OpenWb(fs, name) ==
    [x \in DOMAIN fs \cup {name} |-> IF x = name THEN "incomplete" ELSE fs[x]]

\* The file after retrbinary returned and the with block closed it.
WriteAll(fs, name) == [fs EXCEPT ![name] = "complete"]

(***************************************************************************)
(* Block Downloader: DownloadBlockFilesFromFTPS.processAlgorithm.          *)
(***************************************************************************)
FtpServer == "ftp.dataforsyningen.dk"
FtpPort == 990

MsgNoLayer == "No active vector layer found."
MsgCredentials == "FTP username and password are required."
MsgFolder == "Output folder does not exist or is not valid."
MsgNoSelection == "No features are selected in the active layer."
MsgConnect == "Failed to connect to FTPS server"
\* Not a message of the code: the exception ftps.quit() lets through.
MsgQuit == "exception raised by ftps.quit()"

PreconditionMessages == {MsgNoLayer, MsgCredentials, MsgFolder, MsgNoSelection}

\* `not username or not password`
CredentialsMissing_UserOnly(u, p) == u = ""

CredentialsMissing(u, p) == u = "" \/ p = ""

DlInputs ==
    /\ layer_ok \in BOOLEAN
    /\ username \in Credentials
    /\ password \in Credentials
    /\ folder_ok \in BOOLEAN
    /\ selected_features \in SeqUpTo(GridIds, MaxSel)
    /\ block_type_index \in 0..(Len(BLOCK_TYPES) - 1)
    /\ unpack_zip \in BOOLEAN

DlStart ==
    /\ pc = "start"
    /\ ftps = "none"
    /\ i = 0
    /\ downloaded_files = 0
    /\ trace = <<>>
    /\ feedback = <<>>
    /\ files = NoFiles
    /\ unpacked = {}
    /\ raised = ""
    /\ result = -1

IdxStart ==
    /\ idx_pc = "idle"
    /\ url = ""
    /\ layer = [valid |-> FALSE, source |-> "", name |-> "", symbol |-> <<>>]
    /\ project = <<>>
    /\ idx_raised = ""
    /\ idx_result = ""
    /\ runs = 0

Init == DlInputs /\ DlStart /\ IdxStart

inputs == <<layer_ok, username, password, folder_ok, selected_features,
            block_type_index, unpack_zip>>

\* raise QgsProcessingException(msg): the run ends, nothing else changes.
Raise(msg) ==
    /\ raised' = msg
    /\ pc' = "raised"
    /\ UNCHANGED <<inputs, ftps, i, downloaded_files, trace, feedback, files,
                   unpacked, result, idxvars>>

\* Lines 139-141.
NoActiveLayer ==
    /\ pc = "start"
    /\ ~layer_ok
    /\ Raise(MsgNoLayer)

\* Lines 150-153.
MissingCredentials ==
    /\ pc = "start"
    /\ layer_ok
    /\ CredentialsMissing(username, password)
    /\ Raise(MsgCredentials)

\* Lines 155-157.
BadOutputFolder ==
    /\ pc = "start"
    /\ layer_ok
    /\ ~CredentialsMissing(username, password)
    /\ ~folder_ok
    /\ Raise(MsgFolder)

\* Lines 161-163.
NoSelection ==
    /\ pc = "start"
    /\ layer_ok
    /\ ~CredentialsMissing(username, password)
    /\ folder_ok
    /\ selected_features = <<>>
    /\ Raise(MsgNoSelection)

\* Lines 139-179 with every check passed.
PreconditionsPass ==
    /\ pc = "start"
    /\ layer_ok
    /\ ~CredentialsMissing(username, password)
    /\ folder_ok
    /\ selected_features # <<>>
    /\ feedback' = Append(feedback,
                          Info("Processing selected features",
                               Len(selected_features), 0))
    /\ pc' = "connect"
    /\ UNCHANGED <<inputs, ftps, i, downloaded_files, trace, files, unpacked,
                   raised, result, idxvars>>

\* The three calls of the try block of lines 182-186, in order.
ConnectCalls ==
    <<Ev("connect", <<FtpServer, FtpPort>>, TRUE, 0),
      Ev("login", <<username, password>>, TRUE, 0),
      Ev("prot_p", <<>>, TRUE, 0)>>

\* Lines 181-190: the session is created, connected, logged in and
\* protected; the loop is about to start.
ConnectOk ==
    /\ pc = "connect"
    /\ trace' = trace \o ConnectCalls
    /\ ftps' = "connected"
    /\ feedback' = Append(feedback, Info("Connected to FTPS server.", "", 0))
    /\ downloaded_files' = 0
    /\ i' = 1
    /\ pc' = "loop"
    /\ UNCHANGED <<inputs, files, unpacked, raised, result, idxvars>>

\* The calls made when the call at position `stage` raises.
FailedConnectCalls(stage) ==
    SubSeq(ConnectCalls, 1, stage - 1)
        \o <<[ConnectCalls[stage] EXCEPT !.ok = FALSE]>>

\* An except clause that lets the loop run after a failed connect.
ConnectFails_Swallowed ==
    /\ pc = "connect"
    /\ \E stage \in 1..Len(ConnectCalls) :
          trace' = trace \o FailedConnectCalls(stage)
    /\ ftps' = "broken"
    /\ downloaded_files' = 0
    /\ i' = 1
    /\ pc' = "loop"
    /\ UNCHANGED <<inputs, feedback, files, unpacked, raised, result, idxvars>>

\* Lines 181-188: connect, login or prot_p raises; the except clause
\* raises QgsProcessingException.  The session object is abandoned.
ConnectFails ==
    /\ pc = "connect"
    /\ \E stage \in 1..Len(ConnectCalls) :
          trace' = trace \o FailedConnectCalls(stage)
    /\ ftps' = "broken"
    /\ raised' = MsgConnect
    /\ pc' = "raised"
    /\ UNCHANGED <<inputs, i, downloaded_files, feedback, files, unpacked,
                   result, idxvars>>

\* ---- one iteration of the loop of lines 191-217, by how it ends ----
InLoop == pc = "loop" /\ i <= Len(selected_features)

grid_id == selected_features[i]
block_type == BlockType(block_type_index)
filename == Filename(block_type, grid_id)
local_filepath == PathJoin(OutputFolder, filename)
ftp_filepath == FtpFilepath(block_type, grid_id)

OpenCall(ok) == Ev("open", local_filepath, ok, i)
\* The with block of lines 206-207: the transfer into the opened file.
RetrCall(ok) == Ev("retrbinary", RetrCommand(ftp_filepath), ok, i)
\* Lines 213-214: ZipFile(local_filepath) and extractall(output_folder).
UnzipCall(ok) == Ev("extractall", <<local_filepath, OutputFolder>>, ok, i)

Downloading == Info("Downloading", <<filename, local_filepath>>, i)
Failed == Err("Failed to download", filename, i)

\* Lines 192-195.
SkipFeature ==
    /\ InLoop
    /\ IsEmptyId(grid_id)
    /\ feedback' = Append(feedback, Info("Skipping feature with no grid ID", i, i))
    /\ i' = i + 1
    /\ UNCHANGED <<inputs, pc, ftps, downloaded_files, trace, files, unpacked,
                   raised, result, idxvars>>

\* Lines 198-206, 216-217: open() raises.
OpenFails ==
    /\ InLoop
    /\ ~IsEmptyId(grid_id)
    /\ trace' = Append(trace, OpenCall(FALSE))
    /\ feedback' = feedback \o <<Downloading, Failed>>
    /\ i' = i + 1
    /\ UNCHANGED <<inputs, pc, ftps, downloaded_files, files, unpacked,
                   raised, result, idxvars>>

\* A loop body without the try/except: the transfer error ends the run.
RetrFails_Propagates ==
    /\ InLoop
    /\ ~IsEmptyId(grid_id)
    /\ trace' = trace \o <<OpenCall(TRUE), RetrCall(FALSE)>>
    /\ files' = OpenWb(files, filename)
    /\ \E lost \in BOOLEAN :
          ftps' = IF lost \/ ftps = "broken" THEN "broken" ELSE ftps
    /\ feedback' = Append(feedback, Downloading)
    /\ raised' = "Failed to download"
    /\ pc' = "raised"
    /\ UNCHANGED <<inputs, i, downloaded_files, unpacked, result, idxvars>>

\* Lines 198-207, 216-217: the file is opened, retrbinary raises (remote
\* file not found, or the connection is lost, which also breaks the
\* session for the calls that follow).
RetrFails ==
    /\ InLoop
    /\ ~IsEmptyId(grid_id)
    /\ trace' = trace \o <<OpenCall(TRUE), RetrCall(FALSE)>>
    /\ files' = OpenWb(files, filename)
    /\ \E lost \in BOOLEAN :
          ftps' = IF lost \/ ftps = "broken" THEN "broken" ELSE ftps
    /\ feedback' = feedback \o <<Downloading, Failed>>
    /\ i' = i + 1
    /\ UNCHANGED <<inputs, pc, downloaded_files, unpacked, raised, result,
                   idxvars>>

\* Lines 198-211: transferred, no unpacking asked for.
Downloaded ==
    /\ InLoop
    /\ ~IsEmptyId(grid_id)
    /\ ftps = "connected"
    /\ ~ShouldUnpack(unpack_zip, filename)
    /\ trace' = trace \o <<OpenCall(TRUE), RetrCall(TRUE)>>
    /\ files' = WriteAll(OpenWb(files, filename), filename)
    /\ downloaded_files' = Increment(downloaded_files)
    /\ feedback' = feedback \o <<Downloading, Info("Downloaded", filename, i)>>
    /\ i' = i + 1
    /\ UNCHANGED <<inputs, pc, ftps, unpacked, raised, result, idxvars>>

\* Lines 198-215: transferred and unpacked.
UnpackOk ==
    /\ InLoop
    /\ ~IsEmptyId(grid_id)
    /\ ftps = "connected"
    /\ ShouldUnpack(unpack_zip, filename)
    /\ trace' = trace \o <<OpenCall(TRUE), RetrCall(TRUE), UnzipCall(TRUE)>>
    /\ files' = WriteAll(OpenWb(files, filename), filename)
    /\ downloaded_files' = Increment(downloaded_files)
    /\ unpacked' = unpacked \cup {filename}
    /\ feedback' = feedback \o <<Downloading, Info("Downloaded", filename, i),
                                 Info("Unpacking", filename, i),
                                 Info("Unpacked", filename, i)>>
    /\ i' = i + 1
    /\ UNCHANGED <<inputs, pc, ftps, raised, result, idxvars>>

\* Lines 198-217: transferred and counted, then ZipFile or extractall
\* raises (corrupt archive, disk full); entries may be missing.
UnpackFails ==
    /\ InLoop
    /\ ~IsEmptyId(grid_id)
    /\ ftps = "connected"
    /\ ShouldUnpack(unpack_zip, filename)
    /\ trace' = trace \o <<OpenCall(TRUE), RetrCall(TRUE), UnzipCall(FALSE)>>
    /\ files' = WriteAll(OpenWb(files, filename), filename)
    /\ downloaded_files' = Increment(downloaded_files)
    /\ feedback' = feedback \o <<Downloading, Info("Downloaded", filename, i),
                                 Info("Unpacking", filename, i), Failed>>
    /\ i' = i + 1
    /\ UNCHANGED <<inputs, pc, ftps, unpacked, raised, result, idxvars>>

LoopOver == pc = "loop" /\ i > Len(selected_features)

\* Lines 219-222: the session is closed and the count returned.
QuitReturns ==
    /\ LoopOver
    /\ ftps = "connected"
    /\ trace' = Append(trace, Ev("quit", <<>>, TRUE, 0))
    /\ ftps' = "closed"
    /\ feedback' = Append(feedback, Info("Download complete.", downloaded_files, 0))
    /\ result' = downloaded_files
    /\ pc' = "returned"
    /\ UNCHANGED <<inputs, i, downloaded_files, files, unpacked, raised, idxvars>>

\* Line 219 outside any try: on a session a transfer error has broken, or
\* one that breaks now, ftps.quit() raises and the exception leaves
\* processAlgorithm; the socket is not closed and nothing is returned.
QuitRaises ==
    /\ LoopOver
    /\ ftps \in {"connected", "broken"}
    /\ trace' = Append(trace, Ev("quit", <<>>, FALSE, 0))
    /\ ftps' = "broken"
    /\ raised' = MsgQuit
    /\ pc' = "raised"
    /\ UNCHANGED <<inputs, i, downloaded_files, feedback, files, unpacked,
                   result, idxvars>>

Next ==
    \/ NoActiveLayer
    \/ MissingCredentials
    \/ BadOutputFolder
    \/ NoSelection
    \/ PreconditionsPass
    \/ ConnectOk
    \/ ConnectFails
    \/ SkipFeature
    \/ OpenFails
    \/ RetrFails
    \/ Downloaded
    \/ UnpackOk
    \/ UnpackFails
    \/ QuitReturns
    \/ QuitRaises

Spec == Init /\ [][Next]_vars

(***************************************************************************)
(* Index Loader: Load10KmIndexFile.processAlgorithm.  The algorithm can be *)
(* run again and again on the same project.                                *)
(***************************************************************************)
MsgNoUrl == "No URL provided."
MsgInvalid == "Failed to load the GeoJSON file."

\* Lines 73-77; widths and distances in hundredths of a millimetre.
line_pattern_fill ==
    [type |-> "LinePatternFill", line_width |-> 26, distance |-> 200,
     angle |-> 45, color |-> <<55, 126, 184>>]

\* Lines 79-81.
outline == [type |-> "SimpleLine", color |-> <<0, 0, 0>>, width |-> 46]

\* QgsFillSymbol(): a new fill symbol holds one simple fill layer.
QgsFillSymbol == <<[type |-> "SimpleFill"]>>

\* symbol.changeSymbolLayer(index, layer), index 0-based
changeSymbolLayer(symbol, index, symbol_layer) ==
    [symbol EXCEPT ![index + 1] = symbol_layer]

\* symbol.appendSymbolLayer(layer)
appendSymbolLayer(symbol, symbol_layer) == Append(symbol, symbol_layer)

\* The hatch appended to the default fill instead of replacing it.
fill_symbol_HatchAppended ==
    appendSymbolLayer(appendSymbolLayer(QgsFillSymbol, line_pattern_fill), outline)

\* Lines 83-85.
fill_symbol ==
    appendSymbolLayer(changeSymbolLayer(QgsFillSymbol, 0, line_pattern_fill), outline)

IdxUnchangedDl == UNCHANGED dlvars

\* processAlgorithm is called with a URL parameter (line 56).
IdxCall ==
    /\ idx_pc \in {"idle", "returned", "raised"}
    /\ runs < MaxRuns
    /\ runs' = runs + 1
    /\ url' \in Urls
    /\ idx_pc' = "called"
    /\ idx_raised' = ""
    /\ idx_result' = ""
    /\ UNCHANGED <<layer, project>>
    /\ IdxUnchangedDl

\* Lines 58-59.
IdxNoUrl ==
    /\ idx_pc = "called"
    /\ url = ""
    /\ idx_raised' = MsgNoUrl
    /\ idx_pc' = "raised"
    /\ UNCHANGED <<url, layer, project, idx_result, runs>>
    /\ IdxUnchangedDl

\* Line 65: QgsVectorLayer(url, "10km_index_grid", "ogr"); whether the
\* data source can be fetched and parsed is the outside world's answer.
IdxCreateLayer ==
    /\ idx_pc = "called"
    /\ url # ""
    /\ \E valid \in BOOLEAN :
          layer' = [valid |-> valid, source |-> url, name |-> "10km_index_grid",
                    symbol |-> <<[type |-> "SimpleFill"]>>]
    /\ idx_pc' = "created"
    /\ UNCHANGED <<url, project, idx_raised, idx_result, runs>>
    /\ IdxUnchangedDl

\* Lines 67-68.
IdxInvalidLayer ==
    /\ idx_pc = "created"
    /\ ~layer.valid
    /\ idx_raised' = MsgInvalid
    /\ idx_pc' = "raised"
    /\ UNCHANGED <<url, layer, project, idx_result, runs>>
    /\ IdxUnchangedDl

\* Lines 70-87: layer.renderer().setSymbol(fill_symbol).
IdxStyle ==
    /\ idx_pc = "created"
    /\ layer.valid
    /\ layer' = [layer EXCEPT !.symbol = fill_symbol]
    /\ idx_pc' = "styled"
    /\ UNCHANGED <<url, project, idx_raised, idx_result, runs>>
    /\ IdxUnchangedDl

\* Line 90: QgsProject.instance().addMapLayer(layer).
IdxAddMapLayer ==
    /\ idx_pc = "styled"
    /\ project' = Append(project, layer)
    /\ idx_pc' = "added"
    /\ UNCHANGED <<url, layer, idx_raised, idx_result, runs>>
    /\ IdxUnchangedDl

\* Lines 91-93.
IdxReturn ==
    /\ idx_pc = "added"
    /\ idx_result' = "GeoJSON loaded: " \o layer.name
    /\ idx_pc' = "returned"
    /\ UNCHANGED <<url, layer, project, idx_raised, runs>>
    /\ IdxUnchangedDl

\* The downloader at rest while the index loader runs: no layer is active
\* before the index grid is loaded.
DlAtRest ==
    /\ layer_ok = FALSE
    /\ username = ""
    /\ password = ""
    /\ folder_ok = FALSE
    /\ selected_features = <<>>
    /\ block_type_index = 0
    /\ unpack_zip = FALSE

InitIndex == DlAtRest /\ DlStart /\ IdxStart

NextIndex ==
    \/ IdxCall
    \/ IdxNoUrl
    \/ IdxCreateLayer
    \/ IdxInvalidLayer
    \/ IdxStyle
    \/ IdxAddMapLayer
    \/ IdxReturn

SpecIndex == InitIndex /\ [][NextIndex]_vars

(***************************************************************************)
(* Vocabulary of the properties: what the trace and the feedback record.   *)
(***************************************************************************)
\* Features the loop has dealt with so far.
Processed == 1..(i - 1)

\* Positions in the trace of the calls `op`, and of those made for feature k.
CallsAt(op) == {n \in DOMAIN trace : trace[n].op = op}
CallsFor(op, k) == {n \in CallsAt(op) : trace[n].fid = k}
Succeeded(op, k) == \E n \in CallsFor(op, k) : trace[n].ok
FailedCall(op, k) == \E n \in CallsFor(op, k) : ~trace[n].ok

HasId(k) == selected_features[k] # ""
OpenedOk(k) == Succeeded("open", k)
Transferred(k) == Succeeded("retrbinary", k)
FeatureFailed(k) ==
    FailedCall("open", k) \/ FailedCall("retrbinary", k) \/ FailedCall("extractall", k)

MessagesFor(level, k) ==
    {n \in DOMAIN feedback : feedback[n].level = level /\ feedback[n].fid = k}
SkipMessagesFor(k) ==
    {n \in MessagesFor("info", k) :
        feedback[n].msg = "Skipping feature with no grid ID"}

\* The session was established: the loop has been entered.
SessionEstablished == \E n \in CallsAt("prot_p") : trace[n].ok
RunOver == pc \in {"returned", "raised"}

\* The commands sent, in order.
RequestedCommands == [n \in 1..Cardinality(CallsAt("retrbinary")) |->
    LET at == CHOOSE m \in CallsAt("retrbinary") :
                 Cardinality({x \in CallsAt("retrbinary") : x <= m}) = n
    IN  trace[at].arg]

\* The category table of the specification, written out.
TablePath(category, id) ==
    CASE category = "DTM" ->
           "/dhm_danmarks_hoejdemodel/DTM/DTM_" \o id \o "_TIF_UTM32-ETRS89.zip"
      [] category = "DSM" ->
           "/dhm_danmarks_hoejdemodel/DSM/DSM_" \o id \o "_TIF_UTM32-ETRS89.zip"
      [] category = "Pointclouds" ->
           "/dhm_danmarks_hoejdemodel/PUNKTSKY/PUNKTSKY_" \o id
               \o "_TIF_UTM32-ETRS89.zip"

\* The commands for the features of 1..n that are in keep, in selection order.
RECURSIVE CommandsFor(_, _)
CommandsFor(n, keep) ==
    IF n <= 0 THEN <<>>
    ELSE CommandsFor(n - 1, keep) \o
         (IF n \in keep
          THEN <<"RETR " \o TablePath(BLOCK_TYPES[block_type_index + 1],
                                      selected_features[n])>>
          ELSE <<>>)

\* A feature without identifier causes no call, one "skipped" message and
\* no error.
SkippedQuietly ==
    \A k \in Processed :
        ~HasId(k) =>
            /\ \A n \in DOMAIN trace : trace[n].fid # k
            /\ Cardinality(SkipMessagesFor(k)) = 1
            /\ Cardinality(MessagesFor("info", k)) = 1
            /\ MessagesFor("error", k) = {}

\* C1 as stated: the transfers attempted are as many as the features dealt
\* with that have an identifier; a feature without one causes no call, one
\* "skipped" message and no error.
C1_Original ==
    /\ Cardinality(CallsAt("retrbinary")) =
           Cardinality({k \in Processed : HasId(k)})
    /\ SkippedQuietly

\* C1 amended: the transfers attempted are as many as the features dealt
\* with that have an identifier and whose local file could be opened, one
\* each; a feature whose local file cannot be opened causes no transfer
\* attempt; a feature without identifier causes no call, one "skipped"
\* message and no error.
C1_FetchPerOpenedFeature ==
    /\ Cardinality(CallsAt("retrbinary")) =
           Cardinality({k \in Processed : HasId(k) /\ OpenedOk(k)})
    /\ \A k \in Processed :
           Cardinality(CallsFor("retrbinary", k)) =
               (IF HasId(k) /\ OpenedOk(k) THEN 1 ELSE 0)
    /\ SkippedQuietly

C1_Witness ==
    /\ pc = "returned"
    /\ \E a, b, c \in Processed :
          /\ ~HasId(a)
          /\ HasId(b) /\ FailedCall("open", b)
          /\ HasId(c) /\ CallsFor("retrbinary", c) # {}

\* C2: a feature that fails (open, transfer or extraction) does not end the
\* loop: a run whose session was established ends only after every
\* selected feature was skipped or attempted, and each failed feature has
\* exactly one error message, none of which ended the run.
C2_FailureDoesNotAbort ==
    /\ \A k \in Processed :
          /\ IF HasId(k) THEN CallsFor("open", k) # {}
                         ELSE SkipMessagesFor(k) # {}
          /\ Cardinality(MessagesFor("error", k)) =
                 (IF FeatureFailed(k) THEN 1 ELSE 0)
    /\ (SessionEstablished /\ RunOver) => i = Len(selected_features) + 1
    /\ SessionEstablished => raised \in {"", MsgQuit}

C2_Witness ==
    /\ pc = "returned"
    /\ \E a, b, c \in Processed :
          /\ a < b /\ b < c
          /\ FailedCall("retrbinary", a)
          /\ FailedCall("open", b)
          /\ Transferred(c)

\* C3 as stated: the count returned is the number of features whose
\* transfer succeeded and whose extraction did not fail.
C3_Original ==
    pc = "returned" =>
        result = Cardinality({k \in Processed :
                                 Transferred(k) /\ ~FailedCall("extractall", k)})

\* C3 amended: the count is the number of features whose transfer
\* succeeded, whether or not their extraction then failed; features whose
\* open or transfer failed, and skipped features, are not counted.
C3_CountsTransfers ==
    /\ pc = "loop" =>
          downloaded_files = Cardinality({k \in Processed : Transferred(k)})
    /\ pc = "returned" =>
          result = Cardinality({k \in Processed : Transferred(k)})

C3_Witness ==
    /\ pc = "returned"
    /\ result = 1
    /\ \E a, b, c \in Processed :
          /\ FailedCall("extractall", a)
          /\ FailedCall("retrbinary", b)
          /\ ~HasId(c)

\* C4: when a precondition is unmet (no vector layer, a credential empty,
\* the folder missing, nothing selected) the run ends with that one error
\* and nothing was connected, transferred or written.
C4_PreconditionsBeforeNetwork ==
    (\/ ~layer_ok
     \/ username = ""
     \/ password = ""
     \/ ~folder_ok
     \/ selected_features = <<>>) =>
        /\ pc \in {"start", "raised"}
        /\ trace = <<>>
        /\ ftps = "none"
        /\ files = NoFiles
        /\ unpacked = {}
        /\ result = -1
        /\ feedback = <<>>
        /\ pc = "raised" =>
              raised = (IF ~layer_ok THEN MsgNoLayer
                        ELSE IF username = "" \/ password = "" THEN MsgCredentials
                        ELSE IF ~folder_ok THEN MsgFolder
                        ELSE MsgNoSelection)

C4_Witness ==
    /\ pc = "raised"
    /\ raised = MsgCredentials
    /\ username # ""
    /\ password = ""
    /\ selected_features # <<>>
    /\ trace = <<>>

\* One of the three calls that establish the session raised.
ConnectFailed ==
    \E n \in DOMAIN trace :
        trace[n].op \in {"connect", "login", "prot_p"} /\ ~trace[n].ok

\* C5: when connect, login or prot_p fails, the run ends with the one
\* connection error: the loop is not entered, nothing is opened, fetched or
\* extracted, no file exists and no count is returned.
C5_ConnectFailureIsFatal ==
    ConnectFailed =>
        /\ pc = "raised"
        /\ raised = MsgConnect
        /\ i = 0
        /\ CallsAt("open") \cup CallsAt("retrbinary") \cup CallsAt("extractall")
               \cup CallsAt("quit") = {}
        /\ files = NoFiles
        /\ unpacked = {}
        /\ result = -1
        /\ \A n \in DOMAIN feedback : feedback[n].level # "error"

C5_Witness ==
    /\ ConnectFailed
    /\ FailedCall("login", 0)
    /\ Len(selected_features) = MaxSel
    /\ pc = "raised"

\* C6 as stated: a run that passed its preconditions opened one session,
\* and a run whose session was established ends with the session closed
\* and the count returned, whatever failed in the loop.
C6_SessionClosedAndCountReturned ==
    /\ pc \in {"loop", "returned", "raised"} /\ trace # <<>> =>
          Cardinality(CallsAt("connect")) = 1
    /\ (SessionEstablished /\ RunOver) =>
          /\ pc = "returned"
          /\ ftps = "closed"
          /\ result = downloaded_files

\* C7 as stated: the commands sent are those of the features with an
\* identifier, in selection order, each path given by the category table.
C7_Original ==
    RequestedCommands = CommandsFor(i - 1, {k \in Processed : HasId(k)})

OpenedWithId(k) == HasId(k) /\ OpenedOk(k)

\* C7 amended: the commands sent are those of the features with an
\* identifier whose local file could be opened, in selection order, each
\* path given by the category table, repeated identifiers included, each
\* sent once and never again after a failure.
C7_RequestsInSelectionOrder ==
    /\ RequestedCommands = CommandsFor(i - 1, {k \in Processed : OpenedWithId(k)})
    /\ \A n \in CallsAt("retrbinary") :
          (block_type_index = 0 /\ selected_features[trace[n].fid] = "605_64") =>
              trace[n].arg =
                  "RETR /dhm_danmarks_hoejdemodel/DTM/DTM_605_64_TIF_UTM32-ETRS89.zip"

C7_Witness ==
    /\ pc = "returned"
    /\ block_type_index = 2
    /\ Len(RequestedCommands) = 2
    /\ RequestedCommands[1] = RequestedCommands[2]
    /\ FailedCall("retrbinary", 1)
    /\ Transferred(2)
    /\ FailedCall("open", 3)

\* Without the unpack flag nothing is extracted; with it, extraction of the
\* local file into the folder is attempted once for each feature
\* transferred and for no other.
ExtractionFollowsTransfer ==
    /\ ~unpack_zip => CallsAt("extractall") = {}
    /\ unpack_zip =>
          \A k \in Processed :
              /\ Cardinality(CallsFor("extractall", k)) =
                     (IF Transferred(k) THEN 1 ELSE 0)
              /\ \A n \in CallsFor("extractall", k) :
                     trace[n].arg =
                         <<PathJoin(OutputFolder,
                                    Filename(block_type, selected_features[k])),
                           OutputFolder>>

\* C8 as stated: without the unpack flag nothing is extracted; with it, the
\* features extracted are those transferred, and at the end the entries of
\* every transferred zip are in the folder.
C8_Original ==
    /\ ExtractionFollowsTransfer
    /\ (unpack_zip /\ pc = "returned") =>
          \A k \in Processed :
              Transferred(k) =>
                  Filename(block_type, selected_features[k]) \in unpacked

\* C8 amended: without the unpack flag nothing is extracted; with it,
\* extraction is attempted once for every feature transferred and for no
\* other, and the entries of every zip whose extraction did not fail are in
\* the folder.
C8_ExtractionWhenAsked ==
    /\ ExtractionFollowsTransfer
    /\ ~unpack_zip => unpacked = {}
    /\ \A k \in Processed :
          Succeeded("extractall", k) =>
              Filename(block_type, selected_features[k]) \in unpacked

C8_Witness ==
    /\ pc = "returned"
    /\ unpack_zip
    /\ \E a, b, c \in Processed :
          /\ Succeeded("extractall", a)
          /\ FailedCall("extractall", b)
          /\ Filename(block_type, selected_features[b]) \notin unpacked
          /\ FailedCall("retrbinary", c)

\* The last feature dealt with that opened the file `name`.
LastOpener(name) ==
    CHOOSE k \in Processed :
        /\ OpenedOk(k)
        /\ Filename(block_type, selected_features[k]) = name
        /\ \A m \in Processed :
              (OpenedOk(m) /\ Filename(block_type, selected_features[m]) = name)
                  => m <= k

\* C10: the local file is opened (created or truncated) right before its
\* transfer is attempted and stays when the transfer fails: the files in
\* the folder are those of the features whose open succeeded, a file is
\* complete exactly when the last feature that opened it was transferred,
\* and the count never exceeds the number of features that opened a file.
C10_FileCreatedBeforeFetch ==
    /\ \A n \in CallsAt("retrbinary") :
          /\ n > 1
          /\ trace[n - 1] =
                 Ev("open",
                    PathJoin(OutputFolder,
                             Filename(block_type, selected_features[trace[n].fid])),
                    TRUE, trace[n].fid)
    /\ DOMAIN files =
           {Filename(block_type, selected_features[k]) :
               k \in {m \in Processed : OpenedOk(m)}}
    /\ \A name \in DOMAIN files :
          files[name] = (IF Transferred(LastOpener(name)) THEN "complete"
                                                          ELSE "incomplete")
    /\ downloaded_files <= Cardinality({k \in Processed : OpenedOk(k)})

C10_Witness ==
    /\ pc = "returned"
    /\ Cardinality(DOMAIN files) > result
    /\ \E a, b \in Processed :
          /\ a < b
          /\ selected_features[a] = selected_features[b]
          /\ Transferred(a)
          /\ FailedCall("retrbinary", b)
          /\ files[Filename(block_type, selected_features[b])] = "incomplete"

SymbolTypes(symbol) == [n \in DOMAIN symbol |-> symbol[n].type]

\* A valid layer whose fill symbol is the hatch fill, then the outline.
Hatched(l) ==
    /\ l.valid
    /\ l.source # ""
    /\ Len(l.symbol) = 2
    /\ SymbolTypes(l.symbol) = <<"LinePatternFill", "SimpleLine">>
    /\ l.symbol[1] = line_pattern_fill
    /\ l.symbol[2] = outline

\* What every step of the index loader satisfies.
C9_Step ==
    /\ (idx_pc = "called" /\ url = "") =>
           idx_pc' = "raised" /\ idx_raised' = MsgNoUrl
    /\ (idx_pc = "created" /\ ~layer.valid) =>
           idx_pc' = "raised" /\ idx_raised' = MsgInvalid
    /\ idx_pc' = "raised" => project' = project /\ idx_pc \in {"called", "created"}
    /\ project' # project =>
           /\ idx_pc = "styled"
           /\ idx_pc' = "added"
           /\ Hatched(layer)
           /\ layer' = layer
           /\ project' = Append(project, layer)
    /\ (idx_pc = "created" /\ layer.valid) => idx_pc' = "styled"
    /\ idx_pc = "styled" => idx_pc' = "added" /\ Len(project') = Len(project) + 1
    /\ idx_pc = "added" => idx_pc' = "returned" /\ project' = project
    /\ idx_pc' = "returned" => idx_pc = "added" /\ idx_result' # ""

\* C9: an empty URL ends the invocation with an error at once; an invalid
\* layer ends it with an error; neither adds a layer.  A layer enters the
\* project only by addMapLayer, once per invocation that gets a valid
\* layer, after its symbol was set to the hatch fill followed by the
\* outline, and the invocation then returns.
C9_IndexLoader ==
    /\ [](\A n \in DOMAIN project : Hatched(project[n]))
    /\ [](idx_pc \in {"added", "returned"} =>
             Len(project) >= 1 /\ project[Len(project)] = layer)
    /\ [][C9_Step]_vars

C9_Witness ==
    /\ idx_pc = "returned"
    /\ runs = 3
    /\ Len(project) = 1
    /\ Hatched(project[1])
    /\ idx_result = "GeoJSON loaded: 10km_index_grid"

====
